---- MODULE Spec2Model ----
(***************************************************************************)
(* Resumable batch package installation of QuickColab                      *)
(* (QuickColab/install_descriptor.py): the checkpoint file of each         *)
(* installer type, and AptInstallDescriptor / PipInstallDescriptor         *)
(* ._install_multiple_packages driving _install_single_package,            *)
(* _save_progress, _load_progress and _clear_progress.                     *)
(*                                                                         *)
(* The program is single-threaded: one invocation runs at a time, on       *)
(* either installer type.  The process may die at any point of an          *)
(* invocation (Crash); the checkpoint files in /tmp survive it.            *)
(* Python indices are 0-based: the package at Python index i is            *)
(* packages[i + 1] here.                                                   *)
(***************************************************************************)
EXTENDS Integers, Sequences, FiniteSets, TLC

\* Longest package list a caller passes.
MaxLen == 2

\* Package names a caller draws its lists from.
PackageNames == {"A", "B"}

\* The installer types: the keys of PROGRESS_FILE.format(installer_type).
Backends == {"apt", "pip"}

PackageLists == UNION {[1..n -> PackageNames] : n \in 0..MaxLen}

VARIABLES
    file,            \* installer type -> content of /tmp/<type>_install_progress.json
    pc,              \* position of the running invocation; "idle" when it is
                     \* over, "ready" when the caller can make the next one
    backend,         \* installer type of the running (or last) invocation
    requested,       \* the list the caller passed
    packages,        \* the local `packages` of _install_multiple_packages
    start_index,     \* the local `start_index`
    i,               \* the loop index `i`
    progress_value,  \* progress.value of the IntProgress widget
    progress_data,   \* what _load_progress returned to this invocation
    attempts,        \* calls of _install_single_package made by this invocation
    output,          \* what this invocation printed, in order
    outcome,         \* how the last invocation ended
    fileBefore,      \* the installer's file when the current install was started
    succeeded,       \* installer type -> indices of its session on record as
                     \* installed with success
    assigned,        \* type of the value __set__ was called with: "list", "str"
                     \* or "other"; "none" between two assignments
    crashAt          \* where the invocation before this one died, if it did and
                     \* was for the same installer type

vars == <<file, pc, backend, requested, packages, start_index, i, progress_value,
          progress_data, attempts, output, outcome, fileBefore, succeeded,
          assigned, crashAt>>

----------------------------------------------------------------------------
\* The file an installer type uses: PROGRESS_FILE.format(installer_type).

\* Faulty variant: both installer classes format the same key.
ProgressFileShared(b) == "apt"

ProgressFile(b) == b

\* File contents: whether the file exists, and its text as a sequence of JSON
\* tokens.  A file opened with 'w' and not yet closed holds no text or a
\* proper prefix of the text being written.

Punct(s) == [t |-> "punct", s |-> s, n |-> 0]

Key(s) == [t |-> "key", s |-> s, n |-> 0]

Str(s) == [t |-> "str", s |-> s, n |-> 0]

Num(k) == [t |-> "num", s |-> "", n |-> k]

Absent == [exists |-> FALSE, text |-> <<>>]

EmptyFile == [exists |-> TRUE, text |-> <<>>]

JsonHeader == <<Punct("{"), Key("packages"), Punct("[")>>

\* Faulty variant: a package repeated in the list is written once.
JsonTextNoDuplicates(pkgs, current_index) ==
    LET keep == {n \in 1..Len(pkgs) : \A m \in 1..(n - 1) : pkgs[m] # pkgs[n]}
        rank(n) == Cardinality({m \in keep : m <= n})
    IN  JsonHeader
        \o [j \in 1..Cardinality(keep) |->
               Str(pkgs[CHOOSE n \in keep : rank(n) = j])]
        \o <<Punct("]"), Key("current_index"), Num(current_index), Punct("}")>>

\* The text json.dump writes for {'packages': packages, 'current_index': k}.
JsonText(pkgs, current_index) ==
    JsonHeader
    \o [n \in 1..Len(pkgs) |-> Str(pkgs[n])]
    \o <<Punct("]"), Key("current_index"), Num(current_index), Punct("}")>>

\* _save_progress run to its end: the file holds the whole text.
JsonDump(pkgs, current_index) ==
    [exists |-> TRUE, text |-> JsonText(pkgs, current_index)]

\* os.path.exists(file_path)
Exists(f) == f.exists

NoneData == [status |-> "none", packages |-> <<>>, current_index |-> 0]

DecodeError == [status |-> "error", packages |-> <<>>, current_index |-> 0]

\* The text is {"packages": [<strings>], "current_index": <number>}.
IsRecordText(text) ==
    /\ Len(text) >= Len(JsonHeader) + 4
    /\ SubSeq(text, 1, Len(JsonHeader)) = JsonHeader
    /\ \A n \in (Len(JsonHeader) + 1)..(Len(text) - 4) : text[n].t = "str"
    /\ text[Len(text) - 3] = Punct("]")
    /\ text[Len(text) - 2] = Key("current_index")
    /\ text[Len(text) - 1].t = "num"
    /\ text[Len(text)] = Punct("}")

\* The text is {"packages": [<strings>]}: an object without 'current_index'.
IsPackagesOnlyText(text) ==
    /\ Len(text) >= Len(JsonHeader) + 2
    /\ SubSeq(text, 1, Len(JsonHeader)) = JsonHeader
    /\ \A n \in (Len(JsonHeader) + 1)..(Len(text) - 2) : text[n].t = "str"
    /\ text[Len(text) - 1] = Punct("]")
    /\ text[Len(text)] = Punct("}")

\* The texts `{}` and `null`: values json.load accepts and `if` takes as false.
FalsyTexts == {<<Punct("{"), Punct("}")>>, <<Key("null")>>}

\* json.load(f): the decoded value, or JSONDecodeError for a text that is not
\* a complete JSON value.
JsonLoad(text) ==
    IF IsRecordText(text)
    THEN [status |-> "data",
          packages |-> [n \in 1..(Len(text) - Len(JsonHeader) - 4) |->
                           text[n + Len(JsonHeader)].s],
          current_index |-> text[Len(text) - 1].n]
    ELSE IF IsPackagesOnlyText(text)
    THEN [status |-> "nokey",
          packages |-> [n \in 1..(Len(text) - Len(JsonHeader) - 2) |->
                           text[n + Len(JsonHeader)].s],
          current_index |-> 0]
    ELSE IF text \in FalsyTexts
    THEN [status |-> "falsy", packages |-> <<>>, current_index |-> 0]
    ELSE DecodeError

\* _load_progress: None when the file does not exist, json.load of it otherwise.
LoadProgress(f) == IF ~Exists(f) THEN NoneData ELSE JsonLoad(f.text)

\* The file holds a complete checkpoint record.
IsCheckpoint(f) == LoadProgress(f).status = "data"

\* `if progress_data:` - None, {} and null are false, a dict with a key is true.
Truthy(d) == d.status \in {"data", "nokey"}

\* _load_progress raises JSONDecodeError, or progress_data['current_index']
\* raises KeyError.
LoadRaises(d) == d.status \in {"error", "nokey"}

\* Faulty variant: the caller's list is used even when a checkpoint was found.
EffectivePackagesCallerList(d, req) == req

\* The `packages` the loop runs over.
EffectivePackages(d, req) == IF Truthy(d) THEN d.packages ELSE req

\* Faulty variant: every invocation restarts from the first package.
StartIndexZero(d) == 0

\* The `start_index` the loop starts at.
StartIndexBehind(d) ==
    IF Truthy(d) /\ d.current_index > 0 THEN d.current_index - 1 ELSE 0

StartIndex(d) == IF Truthy(d) THEN d.current_index ELSE 0

\* Faulty variant: the loop stops one package early.
HasNextSkipLast(idx, pkgs) == idx < Len(pkgs) - 1

\* enumerate(packages[start_index:], start=start_index) yields index idx.
HasNext(idx, pkgs) == idx < Len(pkgs)

\* Faulty variants: the index of the package just installed is saved, or the
\* saved index runs one ahead.
SavedIndexStale(idx) == idx

SavedIndexAhead(idx) == idx + 2

\* Faulty variant: the pip engine passes the index of the package just
\* installed.
SavedIndexPipStale(idx) == IF backend = "pip" THEN idx ELSE idx + 1

\* The current_index passed to _save_progress after package idx succeeded.
SavedIndex(idx) == idx + 1

\* The value assigned to progress.value after package idx succeeded.
ProgressAfter(idx) == idx + 1

\* Faulty variant: an empty list does not count as complete.
IsCompleteNonEmpty(value, pkgs) == value = Len(pkgs) /\ Len(pkgs) > 0

\* Faulty variant: the completion test is off by one.
IsCompleteOffByOne(value, pkgs) == value = Len(pkgs) + 1

\* `if progress.value == len(packages):`
IsComplete(value, pkgs) == value = Len(pkgs)

\* Faulty variant: the file is emptied instead of removed.
ClearedTruncates(f) == EmptyFile

\* Faulty variant: the file is not removed.
ClearedKept(f) == f

\* The file after _clear_progress: removed if it existed.
Cleared(f) == IF Exists(f) THEN Absent ELSE f

----------------------------------------------------------------------------
\* Printed lines, and the record of one _install_single_package call.

\* n and total are 0, and pkg is "", in a line that does not print them.
Event(ev, n, total, pkg) == [ev |-> ev, n |-> n, total |-> total, pkg |-> pkg]

Attempt(idx, pkg, result) == [i |-> idx, pkg |-> pkg, result |-> result]

NoCrash == [kind |-> "none", backend |-> "", pkg |-> "", i |-> 0, before |-> Absent]

SetLast(s, x) == [s EXCEPT ![Len(s)] = x]

\* The invocation ends: it returned, raised, or the process died.
Finish(o) ==
    /\ pc' = "idle"
    /\ outcome' = o
    /\ crashAt' = NoCrash

----------------------------------------------------------------------------
Init ==
    /\ file = [b \in Backends |-> Absent]
    /\ pc = "ready"
    /\ backend = "apt"
    /\ requested = <<>>
    /\ packages = <<>>
    /\ start_index = 0
    /\ i = 0
    /\ progress_value = 0
    /\ progress_data = NoneData
    /\ attempts = <<>>
    /\ output = <<>>
    /\ outcome = "none"
    /\ fileBefore = Absent
    /\ succeeded = [b \in Backends |-> {}]
    /\ assigned = "none"
    /\ crashAt = NoCrash

\* __set__ is called with a list (the caller assigns it to aptinstall /
\* pipinstall): _install_multiple_packages(R) is entered.
Invoke(b, R) ==
    /\ pc = "ready"
    /\ pc' = "load"
    /\ backend' = b
    /\ requested' = R
    /\ packages' = R
    /\ start_index' = 0
    /\ i' = 0
    /\ progress_value' = 0
    /\ progress_data' = NoneData
    /\ attempts' = <<>>
    /\ output' = <<>>
    /\ outcome' = "none"
    /\ fileBefore' = file[ProgressFile(b)]
    /\ crashAt' = IF crashAt.backend = b THEN crashAt ELSE NoCrash
    /\ UNCHANGED file
    /\ UNCHANGED succeeded
    /\ assigned' = "list"

\* progress_data = _load_progress(type); the resume / fresh-start branch; the
\* IntProgress widget is created with value=start_index.
Load ==
    /\ pc = "load"
    /\ LET d == LoadProgress(file[ProgressFile(backend)]) IN
        /\ progress_data' = d
        /\ IF LoadRaises(d)
           THEN /\ Finish("load_error")
                /\ UNCHANGED <<packages, start_index, i, progress_value, output>>
           ELSE /\ packages' = EffectivePackages(d, requested)
                /\ start_index' = StartIndex(d)
                /\ i' = StartIndex(d)
                /\ progress_value' = StartIndex(d)
                /\ output' = IF Truthy(d)
                             THEN <<Event("resuming", 0, 0, "")>>
                             ELSE <<>>
                /\ pc' = "loop"
                /\ UNCHANGED <<outcome, crashAt>>
    /\ UNCHANGED <<file, backend, requested, attempts, fileBefore>>
    /\ succeeded' = IF progress_data'.status = "none"
                     THEN [succeeded EXCEPT ![backend] = {}]
                     ELSE succeeded
    /\ UNCHANGED assigned

\* Faulty variant: the checkpoint is written before the install is tried.
NextPackageSavesFirst ==
    /\ pc = "loop"
    /\ HasNext(i, packages)
    /\ output' = Append(output, Event("step", i + 1, Len(packages), packages[i + 1]))
    /\ attempts' = Append(attempts, Attempt(i, packages[i + 1], "running"))
    /\ fileBefore' = file[ProgressFile(backend)]
    /\ file' = [file EXCEPT ![ProgressFile(backend)] = JsonDump(packages, i)]
    /\ pc' = "install"
    /\ UNCHANGED <<backend, requested, packages, start_index, i,
                   progress_value, progress_data, outcome, crashAt>>
    /\ UNCHANGED succeeded
    /\ UNCHANGED assigned

\* Faulty variant: the step line counts against the caller's list.
NextPackageCallerTotal ==
    /\ pc = "loop"
    /\ HasNext(i, packages)
    /\ output' = Append(output, Event("step", i + 1, Len(requested), packages[i + 1]))
    /\ attempts' = Append(attempts, Attempt(i, packages[i + 1], "running"))
    /\ fileBefore' = file[ProgressFile(backend)]
    /\ pc' = "install"
    /\ UNCHANGED <<file, backend, requested, packages, start_index, i,
                   progress_value, progress_data, outcome, crashAt>>
    /\ UNCHANGED succeeded
    /\ UNCHANGED assigned

\* The loop yields (i, pkg); the step line is printed and
\* _install_single_package(pkg) is called.
NextPackage ==
    /\ pc = "loop"
    /\ HasNext(i, packages)
    /\ output' = Append(output, Event("step", i + 1, Len(packages), packages[i + 1]))
    /\ attempts' = Append(attempts, Attempt(i, packages[i + 1], "running"))
    /\ fileBefore' = file[ProgressFile(backend)]
    /\ pc' = "install"
    /\ UNCHANGED <<file, backend, requested, packages, start_index, i,
                   progress_value, progress_data, outcome, crashAt>>
    /\ UNCHANGED succeeded
    /\ UNCHANGED assigned

\* The loop is exhausted.
LoopDone ==
    /\ pc = "loop"
    /\ ~HasNext(i, packages)
    /\ pc' = "final"
    /\ UNCHANGED <<file, backend, requested, packages, start_index, i,
                   progress_value, progress_data, attempts, output, outcome,
                   fileBefore, crashAt>>
    /\ UNCHANGED succeeded
    /\ UNCHANGED assigned

\* check_call returned 0: _install_single_package returns True and
\* progress.value is set.
InstallSucceeds ==
    /\ pc = "install"
    /\ attempts' = SetLast(attempts, Attempt(i, packages[i + 1], "ok"))
    /\ output' = Append(output, Event("installed", 0, 0, packages[i + 1]))
    /\ progress_value' = ProgressAfter(i)
    /\ pc' = "save"
    /\ UNCHANGED <<file, backend, requested, packages, start_index, i,
                   progress_data, outcome, fileBefore, crashAt>>
    /\ succeeded' = [succeeded EXCEPT ![backend] = @ \cup {i}]
    /\ UNCHANGED assigned

\* Faulty variant: a failed package is tried again instead of returning.
InstallFailsRetry ==
    /\ pc = "install"
    /\ attempts' = SetLast(attempts, Attempt(i, packages[i + 1], "failed"))
    /\ output' = Append(output, Event("error", 0, 0, packages[i + 1]))
    /\ pc' = "loop"
    /\ UNCHANGED <<file, backend, requested, packages, start_index, i,
                   progress_value, progress_data, outcome, fileBefore, crashAt>>
    /\ UNCHANGED succeeded
    /\ UNCHANGED assigned

\* Faulty variant: the failure of the package manager is raised to the caller.
InstallFailsRaises ==
    /\ pc = "install"
    /\ attempts' = SetLast(attempts, Attempt(i, packages[i + 1], "failed"))
    /\ Finish("install_error")
    /\ UNCHANGED <<file, backend, requested, packages, start_index, i,
                   progress_value, progress_data, output, fileBefore>>
    /\ UNCHANGED succeeded
    /\ UNCHANGED assigned

\* Faulty variant: a failed run removes its checkpoint.
InstallFailsClears ==
    /\ pc = "install"
    /\ attempts' = SetLast(attempts, Attempt(i, packages[i + 1], "failed"))
    /\ output' = Append(Append(output, Event("error", 0, 0, packages[i + 1])),
                        Event("paused", 0, 0, packages[i + 1]))
    /\ file' = [file EXCEPT ![ProgressFile(backend)] = Absent]
    /\ Finish("paused")
    /\ UNCHANGED <<backend, requested, packages, start_index, i,
                   progress_value, progress_data, fileBefore>>
    /\ UNCHANGED succeeded
    /\ UNCHANGED assigned

\* Faulty variant: a failure leaves the loop instead of the function.
InstallFailsBreak ==
    /\ pc = "install"
    /\ attempts' = SetLast(attempts, Attempt(i, packages[i + 1], "failed"))
    /\ output' = Append(Append(output, Event("error", 0, 0, packages[i + 1])),
                        Event("paused", 0, 0, packages[i + 1]))
    /\ pc' = "final"
    /\ UNCHANGED <<file, backend, requested, packages, start_index, i,
                   progress_value, progress_data, outcome, fileBefore, crashAt>>
    /\ UNCHANGED succeeded
    /\ UNCHANGED assigned

\* check_call raised CalledProcessError: _install_single_package returns
\* False, the paused line is printed and the invocation returns.
InstallFails ==
    /\ pc = "install"
    /\ attempts' = SetLast(attempts, Attempt(i, packages[i + 1], "failed"))
    /\ output' = Append(Append(output, Event("error", 0, 0, packages[i + 1])),
                        Event("paused", 0, 0, packages[i + 1]))
    /\ Finish("paused")
    /\ UNCHANGED <<file, backend, requested, packages, start_index, i,
                   progress_value, progress_data, fileBefore>>
    /\ UNCHANGED succeeded
    /\ UNCHANGED assigned

\* _save_progress: open(path, 'w') truncates the file.
SaveOpen ==
    /\ pc = "save"
    /\ file' = [file EXCEPT ![ProgressFile(backend)] = EmptyFile]
    /\ pc' = "dump"
    /\ UNCHANGED <<backend, requested, packages, start_index, i, progress_value,
                   progress_data, attempts, output, outcome, fileBefore, crashAt>>
    /\ UNCHANGED succeeded
    /\ UNCHANGED assigned

\* _save_progress: open raises OSError; the file is as it was.
SaveOpenFails ==
    /\ pc = "save"
    /\ Finish("save_error")
    /\ UNCHANGED <<file, backend, requested, packages, start_index, i,
                   progress_value, progress_data, attempts, output, fileBefore>>
    /\ UNCHANGED succeeded
    /\ UNCHANGED assigned

\* _save_progress: one more piece of the JSON text reaches the file before it
\* is closed.  Every proper prefix of the text is rejected alike by json.load;
\* the prefixes up to the opening of the list are kept apart here.
SaveFlush ==
    /\ pc = "dump"
    /\ LET f == file[ProgressFile(backend)]
           full == JsonText(packages, SavedIndex(i))
       IN  /\ Len(f.text) < Len(JsonHeader)
           /\ file' = [file EXCEPT ![ProgressFile(backend)] =
                         [exists |-> TRUE, text |-> SubSeq(full, 1, Len(f.text) + 1)]]
    /\ UNCHANGED <<pc, backend, requested, packages, start_index, i,
                   progress_value, progress_data, attempts, output, outcome,
                   fileBefore, crashAt>>
    /\ UNCHANGED succeeded
    /\ UNCHANGED assigned

\* Faulty variant: the checkpoint takes the list the caller passed.
SaveCloseCallerList ==
    /\ pc = "dump"
    /\ file' = [file EXCEPT ![ProgressFile(backend)] = JsonDump(requested, SavedIndex(i))]
    /\ i' = i + 1
    /\ pc' = "loop"
    /\ UNCHANGED <<backend, requested, packages, start_index, progress_value,
                   progress_data, attempts, output, outcome, fileBefore, crashAt>>
    /\ UNCHANGED succeeded
    /\ UNCHANGED assigned

\* Faulty variant: the index written counts from the start of this run.
SaveCloseRestart ==
    /\ pc = "dump"
    /\ file' = [file EXCEPT ![ProgressFile(backend)] =
                  JsonDump(packages, SavedIndex(i - start_index))]
    /\ i' = i + 1
    /\ pc' = "loop"
    /\ UNCHANGED <<backend, requested, packages, start_index, progress_value,
                   progress_data, attempts, output, outcome, fileBefore, crashAt>>
    /\ UNCHANGED succeeded
    /\ UNCHANGED assigned

\* _save_progress: json.dump is done and the file is closed; the loop goes on.
SaveClose ==
    /\ pc = "dump"
    /\ file' = [file EXCEPT ![ProgressFile(backend)] = JsonDump(packages, SavedIndex(i))]
    /\ i' = i + 1
    /\ pc' = "loop"
    /\ UNCHANGED <<backend, requested, packages, start_index, progress_value,
                   progress_data, attempts, output, outcome, fileBefore, crashAt>>
    /\ UNCHANGED succeeded
    /\ UNCHANGED assigned

\* _save_progress: a write raises OSError; the file stays truncated.
SaveWriteFails ==
    /\ pc = "dump"
    /\ Finish("save_error")
    /\ UNCHANGED <<file, backend, requested, packages, start_index, i,
                   progress_value, progress_data, attempts, output, fileBefore>>
    /\ UNCHANGED succeeded
    /\ UNCHANGED assigned

\* Faulty variant: the run ends at the last line without _clear_progress.
FinalCheckNoClear ==
    /\ pc = "final"
    /\ IF IsComplete(progress_value, packages)
       THEN /\ output' = Append(output, Event("success", 0, 0, ""))
            /\ Finish("completed")
       ELSE /\ output' = Append(output, Event("incomplete", 0, 0, ""))
            /\ Finish("incomplete")
    /\ UNCHANGED <<file, backend, requested, packages, start_index, i,
                   progress_value, progress_data, attempts, fileBefore>>
    /\ UNCHANGED succeeded
    /\ UNCHANGED assigned

\* After the loop: the success line when progress.value == len(packages),
\* the incomplete line otherwise.
FinalCheck ==
    /\ pc = "final"
    /\ IF IsComplete(progress_value, packages)
       THEN /\ output' = Append(output, Event("success", 0, 0, ""))
            /\ pc' = "clear"
            /\ UNCHANGED <<outcome, crashAt>>
       ELSE /\ output' = Append(output, Event("incomplete", 0, 0, ""))
            /\ Finish("incomplete")
    /\ UNCHANGED <<file, backend, requested, packages, start_index, i,
                   progress_value, progress_data, attempts, fileBefore>>
    /\ UNCHANGED succeeded
    /\ UNCHANGED assigned

\* _clear_progress removes the file if it exists; the invocation returns.
ClearProgress ==
    /\ pc = "clear"
    /\ file' = [file EXCEPT ![ProgressFile(backend)] = Cleared(file[ProgressFile(backend)])]
    /\ Finish("completed")
    /\ UNCHANGED <<backend, requested, packages, start_index, i, progress_value,
                   progress_data, attempts, output, fileBefore>>
    /\ succeeded' = [succeeded EXCEPT ![backend] = {}]
    /\ UNCHANGED assigned

\* _clear_progress: os.remove raises OSError.
ClearFails ==
    /\ pc = "clear"
    /\ Exists(file[ProgressFile(backend)])
    /\ Finish("clear_error")
    /\ UNCHANGED <<file, backend, requested, packages, start_index, i,
                   progress_value, progress_data, attempts, output, fileBefore>>
    /\ UNCHANGED succeeded
    /\ UNCHANGED assigned

\* Between invocations the successes on record for an installer type are
\* those its checkpoint vouches for, the indices below current_index: a
\* success whose _save_progress did not complete is not known to the next
\* invocation.
OnRecord(done) ==
    [b \in Backends |->
        done[b] \cap 0..(LoadProgress(file[ProgressFile(b)]).current_index - 1)]

\* The process dies in the middle of an invocation: its memory is lost, the
\* files stay.  crashAt remembers a death between a successful install and the
\* start of the _save_progress that follows it.
Crash ==
    /\ pc \notin {"idle", "ready"}
    /\ pc' = "ready"
    /\ outcome' = "none"
    /\ crashAt' = IF pc = "save"
                   THEN [kind |-> "presave", backend |-> backend,
                         pkg |-> packages[i + 1], i |-> i, before |-> fileBefore]
                   ELSE NoCrash
    /\ requested' = <<>>
    /\ packages' = <<>>
    /\ start_index' = 0
    /\ i' = 0
    /\ progress_value' = 0
    /\ progress_data' = NoneData
    /\ attempts' = <<>>
    /\ output' = <<>>
    /\ fileBefore' = Absent
    /\ UNCHANGED <<file, backend>>
    /\ succeeded' = OnRecord(succeeded)
    /\ assigned' = "none"

\* The finished invocation's frame is gone; the caller goes on to its next
\* statement.
Forget ==
    /\ pc = "idle"
    /\ pc' = "ready"
    /\ outcome' = "none"
    /\ requested' = <<>>
    /\ packages' = <<>>
    /\ start_index' = 0
    /\ i' = 0
    /\ progress_value' = 0
    /\ progress_data' = NoneData
    /\ attempts' = <<>>
    /\ output' = <<>>
    /\ fileBefore' = Absent
    /\ UNCHANGED <<file, backend, crashAt>>
    /\ succeeded' = OnRecord(succeeded)
    /\ assigned' = "none"

Next ==
    \/ \E b \in Backends, R \in PackageLists : Invoke(b, R)
    \/ Load
    \/ NextPackage
    \/ LoopDone
    \/ InstallSucceeds
    \/ InstallFails
    \/ SaveOpen
    \/ SaveOpenFails
    \/ SaveFlush
    \/ SaveClose
    \/ SaveWriteFails
    \/ FinalCheck
    \/ ClearProgress
    \/ ClearFails
    \/ Crash
    \/ Forget

Spec == Init /\ [][Next]_vars

\* The caller of the eventual-completion property: it goes on with an
\* installer type whose session is stored before it turns to the other one.
ReInvoke(b, R) ==
    /\ \A other \in Backends \ {b} : ~Exists(file[ProgressFile(other)])
    /\ Invoke(b, R)

\* Invocations in which the process does not die and the checkpoint store
\* raises no error.
NextLive ==
    \/ \E b \in Backends, R \in PackageLists : ReInvoke(b, R)
    \/ Load
    \/ NextPackage
    \/ LoopDone
    \/ InstallSucceeds
    \/ InstallFails
    \/ SaveOpen
    \/ SaveFlush
    \/ SaveClose
    \/ FinalCheck
    \/ ClearProgress
    \/ Forget

\* The code is synchronous: every statement of a running invocation is
\* executed and every subprocess.check_call returns.  The caller goes on to
\* its next statement and invokes again, and installs do not fail forever.
Fairness ==
    /\ WF_vars(\E b \in Backends, R \in PackageLists : ReInvoke(b, R))
    /\ WF_vars(Load)
    /\ WF_vars(NextPackage)
    /\ WF_vars(LoopDone)
    /\ WF_vars(InstallSucceeds \/ InstallFails)
    /\ SF_vars(InstallSucceeds)
    /\ WF_vars(SaveOpen)
    /\ WF_vars(SaveClose)
    /\ WF_vars(FinalCheck)
    /\ WF_vars(ClearProgress)
    /\ WF_vars(Forget)

SpecLive == Init /\ [][NextLive]_vars /\ Fairness

\* Faulty variant: a string is handed to the batch engine like a list.
SetStringRunsBatch(b, package) ==
    /\ pc = "ready"
    /\ pc' = "load"
    /\ backend' = b
    /\ requested' = <<package>>
    /\ packages' = <<package>>
    /\ assigned' = "str"
    /\ fileBefore' = file[ProgressFile(b)]
    /\ crashAt' = NoCrash
    /\ UNCHANGED <<file, start_index, i, progress_value, progress_data,
                   attempts, output, outcome, succeeded>>

\* __set__ is called with a string: _install_single_package(package) is
\* called.  `requested` holds the string as a sequence of one name.
SetString(b, package) ==
    /\ pc = "ready"
    /\ pc' = "single"
    /\ backend' = b
    /\ requested' = <<package>>
    /\ attempts' = <<Attempt(0, package, "running")>>
    /\ assigned' = "str"
    /\ fileBefore' = file[ProgressFile(b)]
    /\ crashAt' = NoCrash
    /\ UNCHANGED <<file, packages, start_index, i, progress_value,
                   progress_data, output, outcome, succeeded>>

\* check_call returned 0: _install_single_package returns True, which
\* __set__ drops.
SingleSucceeds ==
    /\ pc = "single"
    /\ attempts' = SetLast(attempts, Attempt(0, attempts[1].pkg, "ok"))
    /\ output' = Append(output, Event("installed", 0, 0, attempts[1].pkg))
    /\ Finish("returned")
    /\ UNCHANGED <<file, backend, requested, packages, start_index, i,
                   progress_value, progress_data, fileBefore, succeeded, assigned>>

\* check_call raised CalledProcessError: _install_single_package returns
\* False, which __set__ drops.
SingleFails ==
    /\ pc = "single"
    /\ attempts' = SetLast(attempts, Attempt(0, attempts[1].pkg, "failed"))
    /\ output' = Append(output, Event("error", 0, 0, attempts[1].pkg))
    /\ Finish("returned")
    /\ UNCHANGED <<file, backend, requested, packages, start_index, i,
                   progress_value, progress_data, fileBefore, succeeded, assigned>>

\* __set__ is called with a value that is neither a str nor a list:
\* TypeError is raised.
SetOther(b) ==
    /\ pc = "ready"
    /\ backend' = b
    /\ assigned' = "other"
    /\ Finish("type_error")
    /\ UNCHANGED <<file, requested, packages, start_index, i, progress_value,
                   progress_data, attempts, output, fileBefore, succeeded>>

\* Every assignment to the aptinstall / pipinstall attribute of a Console.
NextDescriptor ==
    \/ Next
    \/ \E b \in Backends, package \in PackageNames : SetString(b, package)
    \/ SingleSucceeds
    \/ SingleFails
    \/ \E b \in Backends : SetOther(b)

SpecDescriptor == Init /\ [][NextDescriptor]_vars

\* Checkpoint files that did not come from _save_progress: /tmp is shared, and
\* _load_progress reads whatever the file holds.  The texts are a zero-byte
\* file, a truncated text, `{}`, `null`, and an object without 'current_index'.
ForeignTexts ==
    FalsyTexts
    \cup {<<>>, <<Punct("{")>>}
    \cup {JsonHeader \o <<Str(name), Punct("]"), Punct("}")>> : name \in PackageNames}

\* Between two invocations the file of an installer type is replaced from
\* outside the program.
Corrupt(b, text) ==
    /\ pc = "ready"
    /\ file' = [file EXCEPT ![ProgressFile(b)] = [exists |-> TRUE, text |-> text]]
    /\ crashAt' = NoCrash
    /\ UNCHANGED <<pc, backend, requested, packages, start_index, i,
                   progress_value, progress_data, attempts, output, outcome,
                   fileBefore>>
    /\ UNCHANGED succeeded
    /\ UNCHANGED assigned

NextCorrupt ==
    \/ Next
    \/ \E b \in Backends, text \in ForeignTexts : Corrupt(b, text)

SpecCorrupt == Init /\ [][NextCorrupt]_vars

----------------------------------------------------------------------------
TypeOK ==
    /\ pc \in {"ready", "idle", "load", "loop", "install", "save", "dump", "final",
              "clear", "single"}
    /\ assigned \in {"none", "list", "str", "other"}
    /\ backend \in Backends
    /\ requested \in PackageLists
    /\ i \in 0..(MaxLen + 1)
    /\ progress_value \in 0..(MaxLen + 1)

----------------------------------------------------------------------------
\* Vocabulary of the properties.

\* The invocation came back to its caller without an exception.
Returned == pc = "idle" /\ outcome \in {"completed", "paused", "incomplete"}

\* _load_progress has returned to the running (or last) invocation.
Loaded == ~LoadRaises(progress_data) /\ pc \notin {"ready", "load"}

\* The invocation found a checkpoint and resumed from it.
Resumed == Loaded /\ progress_data.status = "data"

\* The invocation found no checkpoint file.
FreshStart == Loaded /\ progress_data.status = "none"

\* The loop has been left (or the invocation is over).
PastLoop == pc \in {"final", "clear"} \/ Returned

LastAttempt == attempts[Len(attempts)]

\* The index a complete checkpoint file holds, 0 when there is none.
PersistedIndex(f) ==
    LET d == LoadProgress(f) IN IF d.status = "data" THEN d.current_index ELSE 0

----------------------------------------------------------------------------
\* C1 - Resume correctness: an invocation that finds the checkpoint (P, k)
\* runs over P whatever list R the caller passed: every install attempt is
\* on P[idx] for an index idx >= k, the first one on P[k], and when k < len(P)
\* there is a first attempt.
C1_ResumeCorrectness ==
    Resumed =>
        LET P == progress_data.packages
            k == progress_data.current_index
        IN  /\ \A n \in DOMAIN attempts :
                  /\ attempts[n].i >= k
                  /\ attempts[n].i < Len(P)
                  /\ attempts[n].pkg = P[attempts[n].i + 1]
            /\ attempts # <<>> => attempts[1].i = k
            /\ (PastLoop \/ pc \in {"install", "save", "dump"}) /\ k < Len(P)
                  => attempts # <<>>

\* A resumed invocation whose caller passed another list has made an attempt.
C1_Witness ==
    /\ Resumed
    /\ requested # progress_data.packages
    /\ attempts # <<>>

\* C2 (as claimed) - Failure halts, doesn't skip: when the install at index j
\* is the first to fail in a run started at s, the attempts are exactly
\* s..j in order and the checkpoint stored after the run has current_index j.
C2_FailureHalts_AsClaimed ==
    pc = "idle" /\ outcome = "paused" =>
        LET j == LastAttempt.i IN
            /\ Len(attempts) = j - start_index + 1
            /\ \A n \in DOMAIN attempts :
                  /\ attempts[n].i = start_index + n - 1
                  /\ attempts[n].result = IF n = Len(attempts) THEN "failed" ELSE "ok"
            /\ IsCheckpoint(file[backend])
            /\ LoadProgress(file[backend]).current_index = j

\* C2 (amended) - as above, except that a fresh-start run whose first
\* package fails (j = 0, no checkpoint at entry) leaves no checkpoint; in
\* every other case the stored checkpoint is (packages, j).
C2_FailureHalts ==
    pc = "idle" /\ outcome = "paused" =>
        LET j == LastAttempt.i IN
            /\ Len(attempts) = j - start_index + 1
            /\ \A n \in DOMAIN attempts :
                  /\ attempts[n].i = start_index + n - 1
                  /\ attempts[n].result = IF n = Len(attempts) THEN "failed" ELSE "ok"
            /\ IF FreshStart /\ j = 0
               THEN file[backend] = Absent
               ELSE file[backend] = JsonDump(packages, j)

\* A run paused at its second attempt, with the checkpoint pointing at it.
C2_Witness ==
    /\ pc = "idle"
    /\ outcome = "paused"
    /\ Len(attempts) = 2
    /\ file[backend] = JsonDump(packages, LastAttempt.i)

\* C3 - Clear on success: when a run returns and none of its installs
\* failed (fresh start or resume), it ended with the success outcome and no
\* checkpoint file exists for its installer type.
C3_ClearOnSuccess ==
    Returned /\ (\A n \in DOMAIN attempts : attempts[n].result = "ok") =>
        /\ outcome = "completed"
        /\ ~Exists(file[backend])

\* A run that installed at least one package and returned with success.
C3_Witness ==
    /\ Returned
    /\ attempts # <<>>
    /\ \A n \in DOMAIN attempts : attempts[n].result = "ok"

\* C4 - At most one in flight, no retries: within one invocation the install
\* calls are on strictly increasing indices of the list, every call but the
\* last has returned success (so at most one is outstanding, and a failed
\* one is followed by no other call).
C4_AtMostOneInFlight ==
    /\ \A n \in DOMAIN attempts :
          /\ n < Len(attempts) => attempts[n].result = "ok"
          /\ n < Len(attempts) => attempts[n].i < attempts[n + 1].i
          /\ attempts[n].pkg = packages[attempts[n].i + 1]
    /\ Cardinality({n \in DOMAIN attempts : attempts[n].result = "running"}) <= 1
    /\ (\E n \in DOMAIN attempts : attempts[n].result = "running") => pc = "install"

\* A second install call has failed.
C4_Witness ==
    /\ Len(attempts) >= 2
    /\ LastAttempt.result = "failed"

\* C5 - Atomic Save: the file of every installer type is at all times absent
\* or a complete checkpoint, and while _save_progress runs it is the complete
\* previous content or the complete new checkpoint.
C5_AtomicSave ==
    /\ \A b \in Backends : ~Exists(file[b]) \/ IsCheckpoint(file[b])
    /\ pc = "dump" => file[backend] \in {fileBefore, JsonDump(packages, SavedIndex(i))}

\* C6 (as claimed) - Crash before checkpoint write: after a death between the
\* successful install of packages[i] and the start of its _save_progress the
\* file is what it was before that install, and the next invocation for
\* that installer type first attempts packages[i].
C6_CrashBeforeSave_AsClaimed ==
    crashAt.kind = "presave" =>
        IF pc \notin {"idle", "ready"} /\ attempts # <<>>
        THEN /\ attempts[1].i = crashAt.i
             /\ attempts[1].pkg = crashAt.pkg
        ELSE file[crashAt.backend] = crashAt.before

\* C6 (amended) - the file is what it was before that install; the next
\* invocation starts at index i, on packages[i] when a checkpoint was stored
\* or when the caller's list starts with that package again (with no
\* checkpoint stored it starts at index 0 of whatever list the caller passes).
C6_CrashBeforeSave ==
    crashAt.kind = "presave" =>
        IF pc \notin {"idle", "ready"} /\ attempts # <<>>
        THEN /\ backend = crashAt.backend
             /\ attempts[1].i = crashAt.i
             /\ (Resumed \/ requested[1] = crashAt.pkg)
                   => attempts[1].pkg = crashAt.pkg
             /\ ~Resumed => attempts[1].pkg = requested[1]
        ELSE /\ file[crashAt.backend] = crashAt.before
             /\ PersistedIndex(file[crashAt.backend]) = crashAt.i

\* The invocation after such a death has resumed and made its first attempt.
C6_Witness ==
    /\ crashAt.kind = "presave"
    /\ crashAt.i >= 1
    /\ pc = "install"
    /\ Len(attempts) = 1

\* C7 - Normalization: an invocation that finds a checkpoint with
\* current_index = len(packages) makes no install attempt, and once it has
\* returned it has reported success and no checkpoint file exists.
C7_Normalization ==
    Resumed /\ progress_data.current_index = Len(progress_data.packages) =>
        /\ attempts = <<>>
        /\ pc \notin {"install", "save", "dump"}
        /\ Returned => outcome = "completed" /\ ~Exists(file[backend])

\* Such an invocation has returned.
C7_Witness ==
    /\ Resumed
    /\ progress_data.current_index = Len(progress_data.packages)
    /\ Returned

\* C8 - Fresh start: an invocation that finds no checkpoint file runs over
\* the caller's list R from index 0: its n-th attempt is on R[n-1], and it
\* stops only at the first failure or at the end of R.
C8_FreshStart ==
    FreshStart =>
        /\ packages = requested
        /\ start_index = 0
        /\ \A n \in DOMAIN attempts :
              /\ attempts[n].i = n - 1
              /\ n <= Len(requested)
              /\ attempts[n].pkg = requested[n]
        /\ PastLoop =>
              \/ Len(attempts) = Len(requested)
              \/ attempts # <<>> /\ LastAttempt.result = "failed"

\* A fresh start over a two-package list that ran to its end.
C8_Witness ==
    /\ FreshStart
    /\ Len(requested) = 2
    /\ outcome = "completed"
    /\ pc = "idle"

\* C9 - Checkpoint index invariant: every complete checkpoint file holds
\* 0 <= current_index <= len(packages).
C9_IndexInvariant ==
    \A b \in Backends :
        LET d == LoadProgress(file[b]) IN
            d.status = "data" =>
                /\ 0 <= d.current_index
                /\ d.current_index <= Len(d.packages)

\* A checkpoint at the upper end of the range is stored.
C9_Witness ==
    \E b \in Backends :
        /\ IsCheckpoint(file[b])
        /\ Len(LoadProgress(file[b]).packages) = 2
        /\ LoadProgress(file[b]).current_index = 2

\* C10 - No advance without durability: when _save_progress has failed,
\* progress.value is not above the index the checkpoint file holds.
C10_NoAdvanceWithoutDurability ==
    pc = "idle" /\ outcome = "save_error" =>
        progress_value <= PersistedIndex(file[backend])

\* C11 - Storage errors abort the run: an invocation in which _save_progress
\* or _clear_progress failed ends there with the error (no install attempt
\* follows) and has not printed the overall success line.
C11_StorageErrorsAbort ==
    pc = "idle" /\ outcome \in {"save_error", "clear_error"} =>
        \A n \in DOMAIN output : output[n].ev # "success"

\* C12 - Corrupt checkpoint is fatal to Load: an invocation whose file exists
\* but does not hold a well-formed {packages, current_index} record (malformed
\* text, a missing field, or an empty value) makes no install attempt, ends
\* with the load error and leaves the file as it was.
C12_CorruptIsFatal ==
    pc \notin {"ready", "load"} /\ progress_data.status \in {"error", "nokey", "falsy"} =>
        /\ attempts = <<>>
        /\ pc = "idle"
        /\ outcome = "load_error"
        /\ file[backend] = fileBefore

\* C13 - Paused message content: the last line of an invocation that stopped
\* on a failed package is the paused line, and it names that package and the
\* attempt count reached.
C13_PausedMessage ==
    pc = "idle" /\ outcome = "paused" =>
        LET m == output[Len(output)] IN
            /\ m.ev = "paused"
            /\ m.pkg = LastAttempt.pkg
            /\ m.n \in {Len(attempts), LastAttempt.i + 1}

\* _load_progress right after _save_progress(b, P, k) returns the record
\* (P, k), for every list P and index k.
RoundTripOfEveryRecord ==
    \A P \in PackageLists : \A k \in 0..Len(P) :
        LoadProgress(JsonDump(P, k)) =
            [status |-> "data", packages |-> P, current_index |-> k]

\* C14 - Save/Load round trip: what _load_progress returns right after a
\* _save_progress is the record that was saved (same packages in the same
\* order with their duplicates, same index), also for a save that replaced an
\* earlier one; each installer type has one file, so one session at most.
C14_SaveLoadRoundTrip ==
    /\ RoundTripOfEveryRecord
    /\ DOMAIN file = {ProgressFile(b) : b \in Backends}
    /\ pc = "loop" /\ attempts # <<>> =>
          LoadProgress(file[backend]) =
              [status |-> "data", packages |-> packages, current_index |-> i]

\* The second save of a run over a list with a repeated package is done.
C14_Witness ==
    /\ pc = "loop"
    /\ Len(attempts) = 2
    /\ packages[1] = packages[2]
    /\ IsCheckpoint(file[backend])

\* C15 - Clear is idempotent: _clear_progress on a file that does not exist
\* changes nothing and is no error, clearing twice is clearing once, and
\* _load_progress after a clear returns None.
C15_ClearIdempotent ==
    /\ \A b \in Backends :
          LET f == file[ProgressFile(b)] IN
              /\ Cleared(Cleared(f)) = Cleared(f)
              /\ LoadProgress(Cleared(f)) = NoneData
              /\ ~Exists(f) => Cleared(f) = f
    /\ pc = "idle" /\ outcome = "clear_error" => Exists(file[backend])
    /\ pc = "idle" /\ outcome = "completed" => LoadProgress(file[backend]) = NoneData

\* A run over the empty list has cleared an installer type without session,
\* while the other installer type has one.
C15_Witness ==
    /\ pc = "idle"
    /\ outcome = "completed"
    /\ FreshStart
    /\ attempts = <<>>
    /\ \E b \in Backends : IsCheckpoint(file[b])

\* C16 - Backend isolation: a step changes the file of the running
\* invocation's installer type only, and what an invocation loads is its own
\* installer type's file.
C16_BackendIsolation ==
    [][/\ \A b \in Backends :
              file'[b] # file[b] => b = backend /\ pc \notin {"ready", "idle"}
       /\ pc = "load" /\ pc' \in {"loop", "idle"}
              => progress_data' = LoadProgress(file[backend])]_vars

\* A pip invocation writes its checkpoint while an apt session is stored.
C16_Witness ==
    /\ backend = "pip"
    /\ pc = "dump"
    /\ IsCheckpoint(file["apt"])

\* C17 - Package failure is data, not an error: once an install has failed
\* the invocation has returned normally (paused), and its last two lines are
\* the error line and the paused line, both naming the failed package.
C17_FailureIsData ==
    attempts # <<>> /\ LastAttempt.result = "failed" =>
        /\ pc = "idle"
        /\ outcome = "paused"
        /\ Len(output) >= 2
        /\ output[Len(output) - 1] = Event("error", 0, 0, LastAttempt.pkg)
        /\ output[Len(output)] = Event("paused", 0, 0, LastAttempt.pkg)

\* A resumed run's install has failed.
C17_Witness ==
    /\ Resumed
    /\ attempts # <<>>
    /\ LastAttempt.result = "failed"

\* C18 - Failure leaves the store untouched: after a run that stopped on a
\* failed install the file is what it was right before that install was
\* started.
C18_FailureLeavesStore ==
    pc = "idle" /\ outcome = "paused" => file[backend] = fileBefore

\* A resumed run that failed at once still has its session.
C18_Witness ==
    /\ pc = "idle"
    /\ outcome = "paused"
    /\ Resumed
    /\ Len(attempts) = 1
    /\ IsCheckpoint(file[backend])

IsTerminalEvent(m) == m.ev \in {"success", "paused", "incomplete"}

\* C19 - Exactly one terminal outcome per invocation: a returned invocation
\* printed exactly one terminal line, the success line (with the file
\* cleared) or the paused line; the success line is printed only when every
\* package from the starting index on succeeded, the paused line only when
\* one failed.
C19_OneTerminalOutcome ==
    /\ Returned =>
          /\ Cardinality({n \in DOMAIN output : IsTerminalEvent(output[n])}) = 1
          /\ IsTerminalEvent(output[Len(output)])
          /\ output[Len(output)].ev =
                 IF outcome = "completed" THEN "success" ELSE "paused"
          /\ outcome = "completed" => ~Exists(file[backend])
    /\ (\E n \in DOMAIN output : output[n].ev = "success") =>
          /\ \A n \in DOMAIN attempts : attempts[n].result = "ok"
          /\ Len(attempts) = Len(packages) - start_index
          /\ \A n \in DOMAIN output : output[n].ev # "paused"
    /\ (\E n \in DOMAIN output : output[n].ev = "paused") =>
          /\ attempts # <<>>
          /\ LastAttempt.result = "failed"
    /\ (pc = "clear" \/ (pc = "idle" /\ outcome \in {"completed", "clear_error"})) =>
          /\ output # <<>>
          /\ output[Len(output)].ev = "success"

\* A run paused after one success.
C19_Witness ==
    /\ Returned
    /\ outcome = "paused"
    /\ Len(attempts) = 2

IsStepEvent(m) == m.ev = "step"

\* C20 - Progress event ordering: the step lines of a run are, in order and
\* without gap from the starting index, (idx+1, len(effective list),
\* packages[idx]) for the indices attempted; the line of an index is printed
\* before its install returns, and a save is under way only after the install
\* of that index returned success.
C20_ProgressEventOrdering ==
    LET steps == SelectSeq(output, IsStepEvent) IN
        /\ Len(steps) = Len(attempts)
        /\ \A n \in DOMAIN steps :
              /\ attempts[n].i = start_index + n - 1
              /\ steps[n] = Event("step", start_index + n,
                                  Len(EffectivePackages(progress_data, requested)),
                                  attempts[n].pkg)
        /\ \A q \in DOMAIN output :
              output[q].ev \in {"installed", "error"} =>
                  /\ q > 1
                  /\ output[q - 1].ev = "step"
                  /\ output[q - 1].pkg = output[q].pkg
        /\ pc \in {"save", "dump"} =>
              /\ LastAttempt.result = "ok"
              /\ LastAttempt.i = i
        /\ attempts # <<>> /\ IsCheckpoint(file[backend]) =>
              PersistedIndex(file[backend]) <=
                  start_index
                  + Cardinality({n \in DOMAIN attempts : attempts[n].result = "ok"})

\* A resumed run, called with a list of another length, has saved an index.
C20_Witness ==
    /\ Resumed
    /\ Len(requested) # Len(packages)
    /\ pc = "loop"
    /\ attempts # <<>>

\* C21 - Session creation on first success: a fresh-start run that has had no
\* successful install has written nothing, so when its first package failed
\* there is no file, and whatever list the next invocation is given it starts
\* at index 0 of that list.
C21_SessionOnFirstSuccess ==
    FreshStart /\ (\A n \in DOMAIN attempts : attempts[n].result # "ok") =>
        /\ ~Exists(file[backend])
        /\ pc = "idle" =>
              \A R \in PackageLists :
                  /\ EffectivePackages(LoadProgress(file[backend]), R) = R
                  /\ StartIndex(LoadProgress(file[backend])) = 0

\* A fresh-start run over two packages has stopped on the first.
C21_Witness ==
    /\ FreshStart
    /\ pc = "idle"
    /\ outcome = "paused"
    /\ Len(attempts) = 1
    /\ Len(packages) = 2

\* C22 - Session list is fixed: a checkpoint written over an earlier
\* checkpoint carries the earlier one's packages (elements, order and
\* duplicates), whatever list the caller passed, and a resumed run works on
\* the stored list.
C22_SessionListFixed ==
    /\ Resumed => packages = progress_data.packages
    /\ attempts # <<>> /\ IsCheckpoint(fileBefore) /\ IsCheckpoint(file[backend]) =>
          LoadProgress(file[backend]).packages = LoadProgress(fileBefore).packages

\* A resumed run, called with another list of the same length, has written
\* its checkpoint.
C22_Witness ==
    /\ Resumed
    /\ Len(requested) = Len(packages)
    /\ requested # packages
    /\ pc = "loop"
    /\ attempts # <<>>
    /\ IsCheckpoint(fileBefore)
    /\ IsCheckpoint(file[backend])

\* C23 - Empty list: an invocation with an empty list and no checkpoint file
\* makes no install attempt, ends with the success line, and leaves no file.
C23_EmptyList ==
    FreshStart /\ requested = <<>> =>
        /\ attempts = <<>>
        /\ ~Exists(file[backend])
        /\ pc = "idle" =>
              /\ outcome = "completed"
              /\ output = <<Event("success", 0, 0, "")>>

\* Such an invocation has returned.
C23_Witness ==
    /\ FreshStart
    /\ requested = <<>>
    /\ pc = "idle"
    /\ outcome = "completed"

\* C24 - Monotone progress: a checkpoint written by a run holds the index of
\* the checkpoint it replaces plus 1, and start_index + 1 when it is the
\* first the run writes.
C24_MonotoneProgress ==
    pc = "loop" /\ attempts # <<>> =>
        /\ IsCheckpoint(file[backend])
        /\ IsCheckpoint(fileBefore) =>
              PersistedIndex(file[backend]) = PersistedIndex(fileBefore) + 1
        /\ Len(attempts) = 1 =>
              PersistedIndex(file[backend]) = start_index + 1
        /\ ~IsCheckpoint(fileBefore) => Len(attempts) = 1 /\ start_index = 0

\* A resumed run has raised the stored index.
C24_Witness ==
    /\ Resumed
    /\ pc = "loop"
    /\ attempts # <<>>
    /\ PersistedIndex(file[backend]) = 2

\* The indices of a list of n packages.
Indices(n) == 0..(n - 1)

C26_EventualCompletion ==
    /\ \A b \in Backends : IsCheckpoint(file[b]) ~> ~Exists(file[b])
    /\ (pc = "load") ~> (pc = "idle" /\ outcome \in {"completed", "paused"})

\* A session that was paused has been completed by a later invocation.
C26_Witness ==
    /\ Resumed
    /\ pc = "idle"
    /\ outcome = "completed"
    /\ attempts # <<>>
    /\ ~Exists(file[backend])

\* C27 - Descriptor dispatch and frame: a string assigned makes one call of
\* _install_single_package for that string, loads nothing and changes no
\* file, and returns; a list assigned enters the batch engine; a value of
\* another type raises TypeError with no install attempt and no file changed.
C27_DescriptorDispatch ==
    [][/\ assigned' = "str" =>
              /\ file' = file
              /\ progress_data' = NoneData
              /\ pc' \in {"single", "idle"}
              /\ pc' = "idle" => outcome' = "returned"
              /\ Len(attempts') = 1
              /\ attempts'[1].pkg = requested'[1]
       /\ assigned' = "other" =>
              /\ file' = file
              /\ progress_data' = NoneData
              /\ attempts' = <<>>
              /\ pc' = "idle"
              /\ outcome' = "type_error"
       /\ assigned = "none" /\ assigned' = "list" => pc' = "load"]_vars

\* A string was assigned and installed while a paused session is stored for
\* the installer type.
C27_Witness ==
    /\ assigned = "str"
    /\ pc = "idle"
    /\ attempts[1].result = "ok"
    /\ IsCheckpoint(file[backend])

\* The file _load_progress returned d from.
FileOf(d) == IF d.status = "data" THEN JsonDump(d.packages, d.current_index) ELSE Absent

\* C28 - apt and pip engines are equivalent up to the installer type: what an
\* invocation does is fixed by the checkpoint it loaded, the list it was
\* given and the results of its installs, whichever engine runs: the attempts
\* it makes, the checkpoint its own file holds after each save, and the way
\* it ends.
C28_EnginesEquivalent ==
    Loaded =>
        LET P == EffectivePackages(progress_data, requested)
            s == StartIndex(progress_data)
            n == Len(attempts)
        IN  /\ packages = P
            /\ start_index = s
            /\ \A k \in 1..n :
                  /\ attempts[k].i = s + k - 1
                  /\ attempts[k].pkg = P[s + k]
                  /\ k < n => attempts[k].result = "ok"
            /\ pc = "loop" =>
                  file[backend] = IF n = 0 THEN FileOf(progress_data)
                                  ELSE JsonDump(P, s + n)
            /\ Returned =>
                  /\ outcome = IF n > 0 /\ attempts[n].result = "failed"
                               THEN "paused" ELSE "completed"
                  /\ outcome = "completed" => n = Len(P) - s /\ file[backend] = Absent
                  /\ outcome = "paused" =>
                        file[backend] = IF n = 1 THEN FileOf(progress_data)
                                        ELSE JsonDump(P, s + n - 1)

\* The pip engine has paused on the second package of a list, and the apt
\* engine was left with the same checkpoint.
C28_Witness ==
    /\ backend = "pip"
    /\ Returned
    /\ outcome = "paused"
    /\ Len(attempts) = 2
    /\ file["apt"] = file["pip"]

====
